---- MODULE Spec2Model ----
(***************************************************************************)
(* A model of the health-data backend: the pydantic request models         *)
(* (services/health_data/models.py), the SQLite-backed HealthDataService   *)
(* (services/health_data/service.py) and the FastAPI handlers that call    *)
(* them (main.py), with the insight pipeline of services/llm_service.py.    *)
(*                                                                         *)
(* Time.  A clock slot is 1/SlotsPerDay of a day.  A Python datetime is    *)
(* [day, slot, aware, off]: the wall-clock day and slot it shows, whether  *)
(* it carries a tzinfo, and its UTC offset in slots.  Its isoformat() text *)
(* is a sequence of character codes: two day digits, one slot digit, and,  *)
(* for an aware datetime, a sign and an offset digit.  The separators of   *)
(* the real text ("-", "T", ":") stand at fixed positions in every string  *)
(* and are left out; they never decide a comparison.                       *)
(*                                                                         *)
(* The created_at column (DEFAULT CURRENT_TIMESTAMP) is set by the engine  *)
(* and read back unchanged; no code path inspects it and it is left out.   *)
(***************************************************************************)
EXTENDS Integers, Sequences, FiniteSets, TLC

VARIABLES
  sleep, heart_rate, weight,   \* the three relations, each in rowid order
  request,                     \* the request handled last
  response,                    \* the answer it got
  inserted,                    \* history: the submissions stored, with their ids
  provider_log,                \* the prompts sent to the provider for that request
  workers,                     \* per worker process: the submission it is handling
  db_lock,                     \* the worker holding SQLite's write lock, or 0
  reported,                    \* history: the submissions answered with success
  storage                      \* GarminService: the JSON files under HealthData/Storage

vars == <<sleep, heart_rate, weight, request, response, inserted, provider_log,
          workers, db_lock, reported, storage>>
tables == <<sleep, heart_rate, weight>>

\* ------------------------------------------------------------------ bounds
MaxRows == 2        \* rows stored over the three relations together
NumWorkers == 2     \* server processes handling submissions at the same time
MaxStored == 3      \* items one JSON storage file holds
SlotsPerDay == 2    \* clock resolution: slots in one day
FirstDay == 30      \* the earliest wall-clock day a submitted record shows

\* Optional[T], a nullable column: None, or Some(x)
None == <<>>
Some(x) == <<x>>

\* --------------------------------------------------------------- datetimes
dt(day, slot, aware, off) ==
  [day |-> day, slot |-> slot, aware |-> aware, off |-> off]

\* the instant an aware datetime denotes, in slots since the epoch
Instant(d) == d.day * SlotsPerDay + d.slot - d.off

\* datetime + timedelta(days = n): the wall clock moves, the tzinfo stays
plus_days(d, n) == [d EXCEPT !.day = d.day + n]

\* date.replace(tzinfo = timezone.utc)
replace_utc(d) == [d EXCEPT !.aware = TRUE, !.off = 0]

\* datetime.__le__ / __lt__ raise TypeError between naive and aware values;
\* two aware values compare by instant, two naive ones by wall clock
Comparable(a, b) == a.aware = b.aware
dt_le(a, b) == Instant(a) <= Instant(b)

\* datetime.isoformat(): character codes of the text
Digit(n) == 48 + n
isoformat(d) ==
  <<Digit(d.day \div 10), Digit(d.day % 10), Digit(d.slot)>> \o
  (IF d.aware
     THEN <<(IF d.off < 0 THEN 45 ELSE 43), Digit(IF d.off < 0 THEN -d.off ELSE d.off)>>
     ELSE <<>>)

\* datetime.fromisoformat(): the datetime a text written by isoformat() shows
fromisoformat(s) ==
  dt((s[1] - 48) * 10 + (s[2] - 48),
     s[3] - 48,
     Len(s) > 3,
     IF Len(s) > 3 THEN (IF s[4] = 45 THEN -(s[5] - 48) ELSE s[5] - 48) ELSE 0)

\* SQLite compares TEXT values with memcmp (BINARY collation): the first
\* differing byte decides, and a proper prefix is the smaller string
RECURSIVE text_lt(_, _)
text_lt(a, b) ==
  IF b = <<>> THEN FALSE
  ELSE IF a = <<>> THEN TRUE
  ELSE IF Head(a) # Head(b) THEN Head(a) < Head(b)
  ELSE text_lt(Tail(a), Tail(b))

text_ge(a, b) == ~text_lt(a, b)

\* ------------------------------------------------------- request models
HR_MIN == 30
HR_MAX == 220
RESTING_MIN == 30
RESTING_MAX == 100
QUALITY_MIN == 0
QUALITY_MAX == 100
PERCENT_MAX == 100

\* SleepPhase.validate_duration
\* validate_duration that lets every duration through
validate_duration_unchecked(v) == TRUE

validate_duration(v) == v >= 0

\* Field(...): the field is required; a body without it is refused
Required(d, fields) == fields \subseteq DOMAIN d

SleepPhase_valid(p) ==
  /\ validate_duration(p.deep)
  /\ validate_duration(p.light)
  /\ validate_duration(p.rem)
  /\ validate_duration(p.awake)

\* validate_times with the comparison written v < start_time
validate_times_strict(v, start_time) ==
  IF ~Comparable(v, start_time) THEN "TypeError"
  ELSE IF Instant(v) < Instant(start_time) THEN "ValueError"
  ELSE "ok"

\* SleepData.validate_times: raises ValueError when v <= start_time; the
\* comparison itself raises TypeError when one side is naive and the other
\* aware.
validate_times(v, start_time) ==
  IF ~Comparable(v, start_time) THEN "TypeError"
  ELSE IF dt_le(v, start_time) THEN "ValueError"
  ELSE "ok"

\* building SleepData from a body: "ok", "ValueError" (a field is refused) or
\* "TypeError" (the end_time validator raised it)
SleepData_built(d) ==
  IF validate_times(d.end_time, d.start_time) = "TypeError" THEN "TypeError"
  ELSE IF /\ validate_times(d.end_time, d.start_time) = "ok"
          /\ d.quality >= QUALITY_MIN
          /\ d.quality <= QUALITY_MAX
          /\ SleepPhase_valid(d.phases)
          /\ Required(d, {"source"})
    THEN "ok"
    ELSE "ValueError"

\* HeartRateData with value declared gt = 30, lt = 220
HeartRateData_valid_exclusive(d) ==
  /\ Required(d, {"timestamp", "source"})
  /\ d.value > HR_MIN
  /\ d.value < HR_MAX
  /\ (d.resting_rate # None =>
        (d.resting_rate[1] >= RESTING_MIN /\ d.resting_rate[1] <= RESTING_MAX))

HeartRateData_valid(d) ==
  /\ Required(d, {"timestamp", "source"})
  /\ d.value >= HR_MIN
  /\ d.value <= HR_MAX
  /\ (d.resting_rate # None =>
        (d.resting_rate[1] >= RESTING_MIN /\ d.resting_rate[1] <= RESTING_MAX))

BodyComposition_valid(b) ==
  /\ b.body_fat >= 0 /\ b.body_fat <= PERCENT_MAX
  /\ b.muscle_mass >= 0 /\ b.muscle_mass <= PERCENT_MAX
  /\ b.water_percentage >= 0 /\ b.water_percentage <= PERCENT_MAX
  /\ (b.bone_mass # None => b.bone_mass[1] >= 0)

WeightData_valid(d) ==
  /\ Required(d, {"timestamp", "source"})
  /\ d.value > 0
  /\ (d.bmi # None => d.bmi[1] > 0)
  /\ (d.body_composition # None => BodyComposition_valid(d.body_composition[1]))

\* ------------------------------------------------------------ MetricStore
\* INSERT INTO sleep: the row the statement writes.  id is AUTOINCREMENT:
\* one more than the largest id ever used, and no row is ever deleted.
sleep_row(t, data) ==
  [id          |-> Len(t) + 1,
   start_time  |-> isoformat(data.start_time),
   end_time    |-> isoformat(data.end_time),
   quality     |-> data.quality,
   deep_sleep  |-> data.phases.deep,
   light_sleep |-> data.phases.light,
   rem_sleep   |-> data.phases.rem,
   awake_time  |-> data.phases.awake,
   source      |-> data.source]

heart_rate_row(t, data) ==
  [id            |-> Len(t) + 1,
   timestamp     |-> isoformat(data.timestamp),
   value         |-> data.value,
   resting_rate  |-> data.resting_rate,
   activity_type |-> data.activity_type,
   source        |-> data.source]

weight_row(t, data) ==
  [id               |-> Len(t) + 1,
   timestamp        |-> isoformat(data.timestamp),
   value            |-> data.value,
   bmi              |-> data.bmi,
   body_fat         |-> IF data.body_composition # None
                          THEN Some(data.body_composition[1].body_fat) ELSE None,
   muscle_mass      |-> IF data.body_composition # None
                          THEN Some(data.body_composition[1].muscle_mass) ELSE None,
   water_percentage |-> IF data.body_composition # None
                          THEN Some(data.body_composition[1].water_percentage) ELSE None,
   bone_mass        |-> IF data.body_composition # None
                          THEN data.body_composition[1].bone_mass ELSE None,
   source           |-> data.source]

Stored(kind, id, data) == [kind |-> kind, id |-> id, data |-> data]

TotalRows == Len(sleep) + Len(heart_rate) + Len(weight)

HealthDataResponse(message) ==
  [status |-> "success", data |-> None, message |-> message, insights |-> None]

\* HealthDataError.dict()
HealthDataError(error) ==
  [status |-> "error", error |-> error, details |-> "engine error"]

\* store_sleep_data with a second try after an engine error: the row is
\* inserted by the retry although the first error is still reported
store_sleep_data_retried(data, db_ok) ==
  /\ sleep' = Append(sleep, sleep_row(sleep, data))
  /\ inserted' = inserted \cup {Stored("sleep", Len(sleep) + 1, data)}
  /\ UNCHANGED <<heart_rate, weight>>

\* HealthDataService.store_sleep_data: one INSERT and a commit; an engine
\* error (db_ok = FALSE) rolls the statement back and is raised as
\* HealthDataError.
store_sleep_data(data, db_ok) ==
  IF db_ok
    THEN /\ sleep' = Append(sleep, sleep_row(sleep, data))
         /\ inserted' = inserted \cup {Stored("sleep", Len(sleep) + 1, data)}
         /\ UNCHANGED <<heart_rate, weight>>
    ELSE UNCHANGED <<tables, inserted>>

\* store_heart_rate_data written as an upsert: it overwrites the newest row
store_heart_rate_data_upsert(data, db_ok) ==
  IF db_ok
    THEN /\ heart_rate' = IF heart_rate = <<>>
                            THEN <<heart_rate_row(heart_rate, data)>>
                            ELSE Append(SubSeq(heart_rate, 1, Len(heart_rate) - 1),
                                        heart_rate_row(heart_rate, data))
         /\ inserted' = inserted \cup {Stored("heart_rate", Len(heart_rate) + 1, data)}
         /\ UNCHANGED <<sleep, weight>>
    ELSE UNCHANGED <<tables, inserted>>

store_heart_rate_data(data, db_ok) ==
  IF db_ok
    THEN /\ heart_rate' = Append(heart_rate, heart_rate_row(heart_rate, data))
         /\ inserted' = inserted \cup {Stored("heart_rate", Len(heart_rate) + 1, data)}
         /\ UNCHANGED <<sleep, weight>>
    ELSE UNCHANGED <<tables, inserted>>

\* store_weight_data that runs its INSERT a second time
store_weight_data_twice(data, db_ok) ==
  IF db_ok
    THEN /\ weight' = Append(Append(weight, weight_row(weight, data)),
                             weight_row(Append(weight, weight_row(weight, data)), data))
         /\ inserted' = inserted \cup {Stored("weight", Len(weight) + 1, data)}
         /\ UNCHANGED <<sleep, heart_rate>>
    ELSE UNCHANGED <<tables, inserted>>

store_weight_data(data, db_ok) ==
  IF db_ok
    THEN /\ weight' = Append(weight, weight_row(weight, data))
         /\ inserted' = inserted \cup {Stored("weight", Len(weight) + 1, data)}
         /\ UNCHANGED <<sleep, heart_rate>>
    ELSE UNCHANGED <<tables, inserted>>

\* ------------------------------------------------------------ range reads
RECURSIVE Perms(_)
Perms(S) ==
  IF S = {} THEN {<<>>}
  ELSE UNION {{<<x>> \o p : p \in Perms(S \ {x})} : x \in S}

Rows(t) == {t[i] : i \in 1..Len(t)}

MetricType == {"sleep", "heart_rate", "weight"}

\* the table of a metric type
TableOf(kind) ==
  CASE kind = "sleep" -> sleep
    [] kind = "heart_rate" -> heart_rate
    [] kind = "weight" -> weight

\* the time column a table is filtered and ordered by (also the key of the
\* dictionaries built from its rows)
TimeOf(kind, r) == IF kind = "sleep" THEN r.start_time ELSE r.timestamp

\* WHERE col >= ? ORDER BY col DESC.  The engine walks the index on col
\* backwards: col descending, and rowid descending among rows with equal col.
\* The result is a set holding the one list the statement returns.
select_since_desc(kind, since) ==
  LET hit == {r \in Rows(TableOf(kind)) : text_ge(TimeOf(kind, r), since)}
  IN {p \in Perms(hit) :
        \A i \in 1..(Len(p) - 1) :
          \/ text_lt(TimeOf(kind, p[i + 1]), TimeOf(kind, p[i]))
          \/ (TimeOf(kind, p[i]) = TimeOf(kind, p[i + 1]) /\ p[i].id > p[i + 1].id)}

\* the window statement on an engine that picks its plan anew for each
\* statement: a scan of the table (rowid order) or a scan of the index
select_window_any_plan(kind, lo, hi) ==
  LET hit == {r \in Rows(TableOf(kind)) :
                text_ge(TimeOf(kind, r), lo) /\ text_lt(TimeOf(kind, r), hi)}
  IN {p \in Perms(hit) :
        \/ \A i \in 1..(Len(p) - 1) : p[i].id < p[i + 1].id
        \/ \A i \in 1..(Len(p) - 1) :
             \/ text_lt(TimeOf(kind, p[i]), TimeOf(kind, p[i + 1]))
             \/ (TimeOf(kind, p[i]) = TimeOf(kind, p[i + 1]) /\ p[i].id < p[i + 1].id)}

\* WHERE col >= ? AND col < ? with no ORDER BY: the rows come in the order of
\* the engine's plan.  With the index on col and no statistics gathered
\* SQLite plans a range scan of that index for every such statement: col
\* ascending, rowid ascending among rows with equal col.
select_window(kind, lo, hi) ==
  LET hit == {r \in Rows(TableOf(kind)) :
                text_ge(TimeOf(kind, r), lo) /\ text_lt(TimeOf(kind, r), hi)}
  IN {p \in Perms(hit) :
        \A i \in 1..(Len(p) - 1) :
          \/ text_lt(TimeOf(kind, p[i]), TimeOf(kind, p[i + 1]))
          \/ (TimeOf(kind, p[i]) = TimeOf(kind, p[i + 1]) /\ p[i].id < p[i + 1].id)}

\* the dictionaries the service builds from sqlite3.Row values
sleep_dict(row) ==
  [id         |-> row.id,
   start_time |-> row.start_time,
   end_time   |-> row.end_time,
   quality    |-> row.quality,
   phases     |-> [deep  |-> row.deep_sleep,
                   light |-> row.light_sleep,
                   rem   |-> row.rem_sleep,
                   awake |-> row.awake_time],
   source     |-> row.source]

heart_rate_dict(row) ==
  [id            |-> row.id,
   timestamp     |-> row.timestamp,
   value         |-> row.value,
   resting_rate  |-> row.resting_rate,
   activity_type |-> row.activity_type,
   source        |-> row.source]

weight_dict(row) ==
  [id               |-> row.id,
   timestamp        |-> row.timestamp,
   value            |-> row.value,
   bmi              |-> row.bmi,
   body_composition |-> IF row.body_fat # None
                          THEN Some([body_fat         |-> row.body_fat,
                                     muscle_mass      |-> row.muscle_mass,
                                     water_percentage |-> row.water_percentage,
                                     bone_mass        |-> row.bone_mass])
                          ELSE None,
   source           |-> row.source]

\* [ {...} for row in rows ]
dicts_of(kind, p) ==
  [i \in 1..Len(p) |->
     CASE kind = "sleep" -> sleep_dict(p[i])
       [] kind = "heart_rate" -> heart_rate_dict(p[i])
       [] kind = "weight" -> weight_dict(p[i])]

\* HealthDataService.get_recent_data: the lists the call can return, with
\* now the value of datetime.now(timezone.utc)
get_recent_data(metric_type, days, now) ==
  LET end_date == now
      start_date == plus_days(end_date, -days)
  IN {dicts_of(metric_type, p) :
        p \in select_since_desc(metric_type, isoformat(start_date))}

\* HealthDataService.get_daily_summary: the summaries the call can return
HealthDataService_get_daily_summary(date0) ==
  LET date == IF date0.aware THEN date0 ELSE replace_utc(date0)
      end_date == plus_days(date, 1)
      lo == isoformat(date)
      hi == isoformat(end_date)
  IN {[date       |-> isoformat(date),
       sleep      |-> dicts_of("sleep", s),
       heart_rate |-> dicts_of("heart_rate", h),
       weight     |-> dicts_of("weight", w)] :
        s \in select_window("sleep", lo, hi),
        h \in select_window("heart_rate", lo, hi),
        w \in select_window("weight", lo, hi)}

\* ------------------------------------------------------------- LLMService
\* parsed JSON values: strings, lists of strings, null, and objects (a record
\* of JSON values under "fields")
JStr(x) == [t |-> "string", v |-> <<x>>]
JList(items) == [t |-> "list", v |-> items]
JNull == [t |-> "null", v |-> <<>>]
JObject(fields) == [t |-> "object", fields |-> fields]

\* bool(x) of a parsed JSON value
Truthy(x) ==
  CASE x.t = "string" -> x.v # <<"">>
    [] x.t = "list" -> x.v # <<>>
    [] x.t = "null" -> FALSE
    [] x.t = "object" -> DOMAIN x.fields # {}

Insight(summary, status, highlights, recommendations, next_steps) ==
  [summary         |-> JStr(summary),
   status          |-> JStr(status),
   highlights      |-> JList(highlights),
   recommendations |-> JList(recommendations),
   next_steps      |-> JStr(next_steps)]

\* the Insight get_health_insights returns for an empty metrics list
LLM_NO_DATA ==
  Insight("Ready to start tracking your health.", "fair",
          <<"Your device is ready to help you track your health",
            "Just a few steps to start monitoring your daily health">>,
          <<"Connect your Garmin device to start tracking",
            "Make sure your device is charged and ready to use">>,
          "Set up your device to begin tracking your health")

\* the Insight returned when json.loads raises JSONDecodeError
FALLBACK ==
  Insight("Your health numbers look good!", "good",
          <<"Sleep quality is improving", "Heart rate shows good recovery">>,
          <<"Keep up your current sleep routine",
            "Continue your regular heart rate tracking">>,
          "Check your sleep quality trends for the week")

DEFAULT_HIGHLIGHTS ==
  JList(<<"Your health numbers are in a good range",
          "Keep tracking to see your progress">>)
DEFAULT_RECOMMENDATIONS ==
  JList(<<"Keep up your current healthy habits",
          "Continue tracking your daily health numbers">>)

required_fields == {"summary", "status", "highlights", "recommendations", "next_steps"}

\* what a call yields: a value, or an exception that leaves the function
Return(x) == [raised |-> FALSE, value |-> <<x>>]
Raise == [raised |-> TRUE, value |-> <<>>]

\* sum(m.get(field, 0) for m in seq)
RECURSIVE SumField(_, _)
SumField(seq, field) ==
  IF seq = <<>> THEN 0 ELSE Head(seq)[field] + SumField(Tail(seq), field)

Last(seq) == seq[Len(seq)]

\* LLMService._generate_prompt: the statistics the prompt states.  A mean is
\* kept as its sum and its count.  Formatting None with ":.0f" raises
\* TypeError, which the function logs and raises again.
generate_prompt(metrics) ==
  LET sleep_data == SelectSeq(metrics, LAMBDA m : m.metric_type = "sleep")
      weight_data == SelectSeq(metrics, LAMBDA m : m.metric_type = "weight")
      heart_rate_data == SelectSeq(metrics, LAMBDA m : m.metric_type = "heart_rate")
      current_weight == IF weight_data # <<>> THEN Last(weight_data).weight ELSE 0
      weight_trend == IF weight_data # <<>>
                        THEN Last(weight_data).weight - Head(weight_data).weight
                        ELSE 0
      resting_hr == IF heart_rate_data # <<>>
                      THEN Last(heart_rate_data).restingHeartRate
                      ELSE Some(0)
  IN IF resting_hr = None
       THEN Raise
       ELSE Return([n_sleep        |-> Len(sleep_data),
                    sleep_minutes  |-> SumField(sleep_data, "totalSleepTime"),
                    quality_sum    |-> SumField(sleep_data, "sleepQuality"),
                    current_weight |-> current_weight,
                    weight_trend   |-> weight_trend,
                    n_heart_rate   |-> Len(heart_rate_data),
                    heart_rate_sum |-> SumField(heart_rate_data, "heartRate"),
                    resting_hr     |-> resting_hr[1]])

\* the provider's answer to one generate_content call: it raises, or it
\* returns a text.  A text is a sequence of pieces: code-fence markers, prose
\* and serialised JSON values.
FenceJson == [t |-> "fence_json"]
Fence == [t |-> "fence"]
Prose == [t |-> "prose"]
ProviderRaises == [raises |-> TRUE, text |-> <<>>]
ProviderText(text) == [raises |-> FALSE, text |-> text]

\* response_text.replace(<fence>json, '').replace(<fence>, '').strip(),
\* <fence> being the three-backquote marker of a code block
strip_fences(text) == SelectSeq(text, LAMBDA k : k.t \notin {"fence_json", "fence"})

\* json.loads: the value of a text that is one JSON value and nothing else;
\* any other text (empty, prose, a value with text around it) raises
\* JSONDecodeError
json_loads(text) ==
  IF Len(text) = 1 /\ text[1].t \in {"string", "list", "null", "object"}
    THEN Some(text[1])
    ELSE None

\* parse_and_validate with no handler for JSONDecodeError
parse_and_validate_uncaught(answer) ==
  LET parsed == json_loads(strip_fences(answer.text))
  IN IF parsed = None
       THEN Raise
       ELSE IF parsed[1].t # "object"
         THEN Raise
         ELSE IF \E f \in required_fields : f \notin DOMAIN parsed[1].fields
           THEN Raise
           ELSE Return(parsed[1].fields)

\* get_health_insights, lines 167-218: parse the text and validate it
parse_and_validate(answer) ==
  LET parsed == json_loads(strip_fences(answer.text))
  IN IF parsed = None
       THEN Return(FALLBACK)
       ELSE LET insights == parsed[1]
            IN IF insights.t # "object"
                 THEN Raise
                 ELSE IF \E f \in required_fields : f \notin DOMAIN insights.fields
                   THEN Raise
                   ELSE Return(
                     [insights.fields EXCEPT
                        !.status = IF @ \in {JStr("good"), JStr("fair"), JStr("poor")}
                                     THEN @ ELSE JStr("fair"),
                        !.highlights = IF Truthy(@) THEN @ ELSE DEFAULT_HIGHLIGHTS,
                        !.recommendations =
                           IF Truthy(@) THEN @ ELSE DEFAULT_RECOMMENDATIONS])

\* get_health_insights without the short cut for an empty metrics list
get_health_insights_always_asks(metrics, answer) ==
  LET prompt == generate_prompt(metrics)
  IN IF prompt.raised
       THEN [raised |-> TRUE, value |-> <<>>, log |-> <<>>]
       ELSE IF answer.raises
         THEN [raised |-> TRUE, value |-> <<>>, log |-> <<prompt.value[1]>>]
         ELSE LET out == parse_and_validate(answer)
              IN [raised |-> out.raised, value |-> out.value,
                  log |-> <<prompt.value[1]>>]

\* get_health_insights that asks the provider a second time when the first
\* call raises or its text is refused
get_health_insights_retrying(metrics, answer) ==
  IF metrics = <<>>
    THEN [raised |-> FALSE, value |-> <<LLM_NO_DATA>>, log |-> <<>>]
    ELSE LET prompt == generate_prompt(metrics)
         IN IF prompt.raised
              THEN [raised |-> TRUE, value |-> <<>>, log |-> <<>>]
              ELSE IF answer.raises
                THEN [raised |-> TRUE, value |-> <<>>,
                      log |-> <<prompt.value[1], prompt.value[1]>>]
                ELSE LET out == parse_and_validate(answer)
                     IN [raised |-> out.raised, value |-> out.value,
                         log |-> IF out.raised
                                   THEN <<prompt.value[1], prompt.value[1]>>
                                   ELSE <<prompt.value[1]>>]

\* LLMService.get_health_insights: [raised, value, log], log the prompts sent
get_health_insights(metrics, answer) ==
  IF metrics = <<>>
    THEN [raised |-> FALSE, value |-> <<LLM_NO_DATA>>, log |-> <<>>]
    ELSE LET prompt == generate_prompt(metrics)
         IN IF prompt.raised
              THEN [raised |-> TRUE, value |-> <<>>, log |-> <<>>]
              ELSE IF answer.raises
                THEN [raised |-> TRUE, value |-> <<>>, log |-> <<prompt.value[1]>>]
                ELSE LET out == parse_and_validate(answer)
                     IN [raised |-> out.raised, value |-> out.value,
                         log |-> <<prompt.value[1]>>]

\* the metric entries main.py builds from the dictionaries of a kind
sleep_metric(d) ==
  [metric_type    |-> "sleep",
   totalSleepTime |-> d.phases.deep + d.phases.light + d.phases.rem,
   sleepQuality   |-> d.quality,
   deepSleepTime  |-> d.phases.deep,
   remSleepTime   |-> d.phases.rem]

heart_rate_metric(d) ==
  [metric_type      |-> "heart_rate",
   heartRate        |-> d.value,
   restingHeartRate |-> d.resting_rate,
   activityType     |-> d.activity_type]

\* body_comp = weight.get("body_composition", {}) or {}
weight_metric(d) ==
  [metric_type     |-> "weight",
   weight          |-> d.value,
   bmi             |-> d.bmi,
   bodyFat         |-> IF d.body_composition # None
                         THEN d.body_composition[1].body_fat ELSE Some(0),
   muscleMass      |-> IF d.body_composition # None
                         THEN d.body_composition[1].muscle_mass ELSE Some(0),
   waterPercentage |-> IF d.body_composition # None
                         THEN d.body_composition[1].water_percentage ELSE Some(0)]

metrics_of(sleep_list, heart_rate_list, weight_list) ==
  [i \in 1..Len(sleep_list) |-> sleep_metric(sleep_list[i])]
    \o [i \in 1..Len(heart_rate_list) |-> heart_rate_metric(heart_rate_list[i])]
    \o [i \in 1..Len(weight_list) |-> weight_metric(weight_list[i])]

\* ---------------------------------------------------------------- main.py
\* FastAPI builds the pydantic model from the body before the handler runs;
\* a body the model rejects is answered 422 and the handler never runs.
ValidationError == [status_code |-> 422, body |-> [status |-> "error", error |-> "validation", details |-> "field"]]
Ok(body) == [status_code |-> 200, body |-> body]
HTTPException(code, detail) == [status_code |-> code, body |-> [detail |-> detail]]

\* a TypeError raised inside a validator: pydantic 1 reports it as a
\* validation error (422); pydantic 2 lets it through, and the request ends
\* as an unhandled server error (500).  The repository pins neither.
InternalServerError == [status_code |-> 500, body |-> "Internal Server Error"]
TypeErrorOutcomes == {ValidationError, InternalServerError}

\* POST /api/v1/health-data/sleep
submit_sleep_data(data, db_ok) ==
  /\ request' = [op |-> "submit_sleep_data", data |-> data]
  /\ provider_log' = <<>>
  /\ IF SleepData_built(data) = "TypeError"
       THEN /\ response' \in TypeErrorOutcomes
            /\ UNCHANGED <<tables, inserted>>
       ELSE IF SleepData_built(data) = "ValueError"
       THEN /\ response' = ValidationError
            /\ UNCHANGED <<tables, inserted>>
       ELSE /\ (db_ok => TotalRows < MaxRows)
            /\ store_sleep_data(data, db_ok)
            /\ response' = IF db_ok
                 THEN Ok(HealthDataResponse("Sleep data stored successfully"))
                 ELSE HTTPException(400, HealthDataError("Failed to store sleep data"))

\* POST /api/v1/health-data/heart-rate
submit_heart_rate_data(data, db_ok) ==
  /\ request' = [op |-> "submit_heart_rate_data", data |-> data]
  /\ provider_log' = <<>>
  /\ IF ~HeartRateData_valid(data)
       THEN /\ response' = ValidationError
            /\ UNCHANGED <<tables, inserted>>
       ELSE /\ (db_ok => TotalRows < MaxRows)
            /\ store_heart_rate_data(data, db_ok)
            /\ response' = IF db_ok
                 THEN Ok(HealthDataResponse("Heart rate data stored successfully"))
                 ELSE HTTPException(400, HealthDataError("Failed to store heart rate data"))

\* POST /api/v1/health-data/weight
submit_weight_data(data, db_ok) ==
  /\ request' = [op |-> "submit_weight_data", data |-> data]
  /\ provider_log' = <<>>
  /\ IF ~WeightData_valid(data)
       THEN /\ response' = ValidationError
            /\ UNCHANGED <<tables, inserted>>
       ELSE /\ (db_ok => TotalRows < MaxRows)
            /\ store_weight_data(data, db_ok)
            /\ response' = IF db_ok
                 THEN Ok(HealthDataResponse("Weight data stored successfully"))
                 ELSE HTTPException(400, HealthDataError("Failed to store weight data"))

DAYS_MIN == 1
DAYS_MAX == 30

\* get_health_data with days clamped into the range instead of refused
get_health_data_clamped(metric_type, days, now, db_ok) ==
  LET used == IF days < DAYS_MIN THEN DAYS_MIN ELSE IF days > DAYS_MAX THEN DAYS_MAX ELSE days
  IN /\ request' = [op |-> "get_health_data", metric_type |-> metric_type,
                    days |-> days, now |-> now]
     /\ provider_log' = <<>>
     /\ UNCHANGED <<tables, inserted>>
     /\ IF ~db_ok
          THEN response' = HTTPException(400, HealthDataError("Failed to retrieve data"))
          ELSE \E data \in get_recent_data(metric_type, used, now) :
                 response' = Ok([status |-> "success", data |-> data])

\* GET /api/v1/health-data/{metric_type}?days=
get_health_data(metric_type, days, now, db_ok) ==
  /\ request' = [op |-> "get_health_data", metric_type |-> metric_type,
                 days |-> days, now |-> now]
  /\ provider_log' = <<>>
  /\ UNCHANGED <<tables, inserted>>
  /\ IF days < DAYS_MIN \/ days > DAYS_MAX
       THEN response' = ValidationError
       ELSE IF ~db_ok
         THEN response' = HTTPException(400, HealthDataError("Failed to retrieve data"))
         ELSE \E data \in get_recent_data(metric_type, days, now) :
                response' = Ok([status |-> "success", data |-> data])

\* GET /api/v1/health-data/daily/{date}
get_daily_summary(date0, db_ok) ==
  /\ request' = [op |-> "get_daily_summary", date |-> date0]
  /\ provider_log' = <<>>
  /\ UNCHANGED <<tables, inserted>>
  /\ LET date == IF date0.aware THEN date0 ELSE replace_utc(date0)
     IN IF ~db_ok
          THEN response' = HTTPException(400, HealthDataError("Failed to retrieve daily summary"))
          ELSE \E summary \in HealthDataService_get_daily_summary(date) :
                 response' = Ok([status |-> "success", data |-> summary])

\* the fixed insights the endpoints answer with when they hold no metrics;
\* the daily one names the calendar day asked for
RECENT_NO_DATA ==
  Insight("No health data available for the selected period.", "fair",
          <<"Ready to start tracking your health",
            "Connect your device to begin monitoring">>,
          <<"Set up your health tracking device",
            "Start recording your daily health metrics">>,
          "Begin tracking your health metrics today")

DAILY_NO_DATA(date) ==
  [Insight("No health data available for the day.", "fair",
           <<"Ready to start tracking your health",
             "Connect your device to begin monitoring">>,
           <<"Set up your health tracking device",
             "Start recording your daily health metrics">>,
           "Begin tracking your health metrics today")
     EXCEPT !.summary = [t |-> "string", v |-> <<"No health data available for the day.">>,
                         day |-> date.day]]

DAILY_NO_VALID_DATA(date) ==
  [Insight("No valid health data available for the day.", "fair",
           <<"Device connection needed", "Health tracking ready to start">>,
           <<"Check your device connection",
             "Verify your health tracking settings">>,
           "Connect your health tracking device")
     EXCEPT !.summary = [t |-> "string", v |-> <<"No valid health data available for the day.">>,
                         day |-> date.day]]

\* the lists one metric type contributes: a storage error inside the loop
\* is logged and the loop moves on to the next type
recent_or_skipped(metric_type, days, now, failing) ==
  IF metric_type \in failing THEN {<<>>} ELSE get_recent_data(metric_type, days, now)

\* GET /api/v1/insights/recent?days=   (failing: the metric types whose read
\* raises; answer: what the provider does if it is called)
get_recent_insights(days, now, failing, answer) ==
  /\ UNCHANGED <<tables, inserted>>
  /\ IF days < DAYS_MIN \/ days > DAYS_MAX
       THEN /\ request' = [op |-> "get_recent_insights", days |-> days, now |-> now,
                           failing |-> {}, answer |-> None]
            /\ provider_log' = <<>>
            /\ response' = ValidationError
       ELSE \E s \in recent_or_skipped("sleep", days, now, failing),
               h \in recent_or_skipped("heart_rate", days, now, failing),
               w \in recent_or_skipped("weight", days, now, failing) :
              LET metrics == metrics_of(s, h, w)
                  out == get_health_insights(metrics, answer)
              IN /\ request' = [op |-> "get_recent_insights", days |-> days, now |-> now,
                                failing |-> failing,
                                answer |-> IF metrics # <<>> /\ out.log # <<>>
                                             THEN Some(answer) ELSE None]
                 /\ provider_log' = IF metrics = <<>> THEN <<>> ELSE out.log
                 /\ response' =
                      IF metrics = <<>>
                        THEN Ok([status |-> "success", insights |-> RECENT_NO_DATA])
                        ELSE IF out.raised
                          THEN HTTPException(500, "Failed to generate insights")
                          ELSE Ok([status |-> "success", insights |-> out.value[1]])

\* GET /api/v1/insights/daily/{date}
get_daily_insights(date0, db_ok, answer) ==
  /\ UNCHANGED <<tables, inserted>>
  /\ LET date == IF date0.aware THEN date0 ELSE replace_utc(date0)
     IN IF ~db_ok
          THEN /\ request' = [op |-> "get_daily_insights", date |-> date0, answer |-> None]
               /\ provider_log' = <<>>
               /\ response' = HTTPException(500, "Failed to generate daily insights")
          ELSE \E summary \in HealthDataService_get_daily_summary(date) :
                 LET metrics == metrics_of(summary.sleep, summary.heart_rate, summary.weight)
                     out == get_health_insights(metrics, answer)
                     fixed == DOMAIN summary = {} \/ metrics = <<>>
                 IN /\ request' = [op |-> "get_daily_insights", date |-> date0,
                                   answer |-> IF ~fixed /\ out.log # <<>>
                                                THEN Some(answer) ELSE None]
                    /\ provider_log' = IF fixed THEN <<>> ELSE out.log
                    /\ response' =
                         IF DOMAIN summary = {}
                           THEN Ok([status |-> "success", insights |-> DAILY_NO_DATA(date)])
                           ELSE IF metrics = <<>>
                             THEN Ok([status |-> "success",
                                      insights |-> DAILY_NO_VALID_DATA(date)])
                             ELSE IF out.raised
                               THEN HTTPException(500, "Failed to generate daily insights")
                               ELSE Ok([status |-> "success", insights |-> out.value[1]])

\* a call of llm_service.get_health_insights(metrics) by a caller other than
\* the two endpoints; the answer is [raised, value]
call_get_health_insights(metrics, answer) ==
  LET out == get_health_insights(metrics, answer)
  IN /\ UNCHANGED <<tables, inserted>>
     /\ request' = [op |-> "get_health_insights", metrics |-> metrics,
                    answer |-> IF out.log # <<>> THEN Some(answer) ELSE None]
     /\ provider_log' = out.log
     /\ response' = [status_code |-> 0,
                     body |-> [raised |-> out.raised, value |-> out.value]]

\* ------------------------------------------------- concurrent submissions
\* Several server processes share the database file.  A submission goes
\* through: validation of the body; cursor.execute(INSERT), which opens a
\* transaction and takes SQLite's write lock, or fails after the busy timeout
\* when another connection holds it; conn.commit(), which makes the row
\* visible and releases the lock; and the answer.
Workers == 1..NumWorkers
Idle == [pc |-> "idle", kind |-> "none", data |-> None, row |-> None, code |-> 0]

Valid(kind, data) ==
  CASE kind = "sleep" -> SleepData_built(data) = "ok"
    [] kind = "heart_rate" -> HeartRateData_valid(data)
    [] kind = "weight" -> WeightData_valid(data)

\* the row an INSERT of data into the relation of kind writes
new_row(kind, data) ==
  CASE kind = "sleep" -> sleep_row(sleep, data)
    [] kind = "heart_rate" -> heart_rate_row(heart_rate, data)
    [] kind = "weight" -> weight_row(weight, data)

\* a write lock that any number of connections can hold at once
reserved_lock_shared == TRUE

\* SQLite grants the write lock to one connection at a time
reserved_lock_free == db_lock = 0

\* the request reaches the handler of worker w: FastAPI builds the model
receive_submit(w, kind, data) ==
  /\ workers[w].pc = "idle"
  /\ workers' = [workers EXCEPT ![w] =
                   IF Valid(kind, data)
                     THEN [Idle EXCEPT !.pc = "execute", !.kind = kind, !.data = data]
                     ELSE [Idle EXCEPT !.pc = "respond", !.kind = kind, !.data = data,
                                       !.code = 422]]
  /\ UNCHANGED <<tables, inserted, db_lock, reported, request, response>>

\* cursor.execute(INSERT ...): the statement runs under the write lock, or
\* raises (the lock is held elsewhere until the timeout, or the engine fails)
execute_insert(w, db_ok) ==
  /\ workers[w].pc = "execute"
  /\ IF reserved_lock_free /\ db_ok
       THEN /\ TotalRows < MaxRows
            /\ db_lock' = w
            /\ workers' = [workers EXCEPT ![w].pc = "commit",
                             ![w].row = Some(new_row(workers[w].kind, workers[w].data))]
       ELSE /\ workers' = [workers EXCEPT ![w].pc = "respond", ![w].code = 400]
            /\ UNCHANGED db_lock
  /\ UNCHANGED <<tables, inserted, request, response, reported>>

\* conn.commit(): the row joins the relation and the lock is released; when
\* the commit fails the transaction is rolled back
commit_insert(w, db_ok) ==
  /\ workers[w].pc = "commit"
  /\ db_lock' = 0
  /\ IF db_ok
       THEN LET kind == workers[w].kind
                row == workers[w].row[1]
            IN /\ sleep' = IF kind = "sleep" THEN Append(sleep, row) ELSE sleep
               /\ heart_rate' = IF kind = "heart_rate" THEN Append(heart_rate, row)
                                ELSE heart_rate
               /\ weight' = IF kind = "weight" THEN Append(weight, row) ELSE weight
               /\ inserted' = inserted \cup {Stored(kind, row.id, workers[w].data)}
               /\ workers' = [workers EXCEPT ![w].pc = "respond", ![w].code = 200]
       ELSE /\ workers' = [workers EXCEPT ![w].pc = "respond", ![w].code = 400,
                                          ![w].row = None]
            /\ UNCHANGED <<tables, inserted>>
  /\ UNCHANGED <<request, response, reported>>

\* the answer leaves: HealthDataResponse, HTTPException(400) or the
\* validation error (the request variable keeps to the one-at-a-time
\* handlers; here the request answered is the one the worker held)
respond_submit(w) ==
  /\ workers[w].pc = "respond"
  /\ response' = IF workers[w].code = 200
                   THEN Ok(HealthDataResponse("stored successfully"))
                   ELSE IF workers[w].code = 400
                     THEN HTTPException(400, HealthDataError("Failed to store"))
                     ELSE ValidationError
  /\ UNCHANGED request
  /\ reported' = IF workers[w].code = 200
                   THEN reported \cup {[kind |-> workers[w].kind,
                                        id |-> workers[w].row[1].id,
                                        data |-> workers[w].data]}
                   ELSE reported
  /\ workers' = [workers EXCEPT ![w] = Idle]
  /\ UNCHANGED <<tables, inserted, db_lock>>

\* ------------------------------------------------------------ GarminService
\* An item of a JSON file is a dictionary; a key that is absent is None.
\* Its time texts are ISO-8601 as above, or end in "Z" (code 90).
Item(id, startTime, timestamp, totalSleepTime, sleepQuality, heartRate, weight0) ==
  [_id |-> id, startTime |-> startTime, timestamp |-> timestamp,
   totalSleepTime |-> totalSleepTime, sleepQuality |-> sleepQuality,
   heartRate |-> heartRate, weight |-> weight0]

Collections == {"sleep", "weight", "heart_rate"}

\* datetime.fromisoformat(text.replace('Z', '+00:00'))
replace_Z(text) ==
  IF text # <<>> /\ text[Len(text)] = 90
    THEN SubSeq(text, 1, Len(text) - 1) \o <<43, Digit(0)>>
    ELSE text
parse_time(text) == fromisoformat(replace_Z(text))

\* the date an item adds to all_dates: startTime if it has one, else timestamp
DatesOf(data) ==
  {parse_time(data[i].startTime[1]) : i \in {j \in 1..Len(data) : data[j].startTime # None}}
  \cup {parse_time(data[i].timestamp[1]) :
          i \in {j \in 1..Len(data) : data[j].startTime = None /\ data[j].timestamp # None}}

\* start_date <= t <= end_date, on the texts of the three datetimes
in_window_by_text(t, start_date, end_date) ==
  /\ text_ge(isoformat(t), isoformat(start_date))
  /\ text_ge(isoformat(end_date), isoformat(t))

\* start_date <= t <= end_date, on datetimes
in_window(t, start_date, end_date) == dt_le(start_date, t) /\ dt_le(t, end_date)

\* the metric entries of the three files (the fields the trends read; the
\* other fields of an entry are copies of the item's)
sleep_entry(item) ==
  [timestamp |-> parse_time(item.startTime[1]), metric_type |-> "sleep",
   value |-> IF item.totalSleepTime # None THEN item.totalSleepTime ELSE Some(0),
   quality |-> item.sleepQuality]
weight_entry(item) ==
  [timestamp |-> parse_time(item.timestamp[1]), metric_type |-> "weight",
   value |-> item.weight, quality |-> None]
heart_rate_entry(item) ==
  [timestamp |-> parse_time(item.timestamp[1]), metric_type |-> "heart_rate",
   value |-> item.heartRate, quality |-> None]

RECURSIVE entries_in(_, _, _, _)
entries_in(kind, data, start_date, end_date) ==
  IF data = <<>> THEN <<>>
  ELSE LET item == Head(data)
           timed == IF kind = "sleep" THEN item.startTime # None
                    ELSE item.timestamp # None
           entry == CASE kind = "sleep" -> sleep_entry(item)
                      [] kind = "weight" -> weight_entry(item)
                      [] kind = "heart_rate" -> heart_rate_entry(item)
       IN (IF timed /\ in_window(entry.timestamp, start_date, end_date)
             THEN <<entry>> ELSE <<>>)
          \o entries_in(kind, Tail(data), start_date, end_date)

\* get_recent_metrics without the early return for a history with no dates:
\* max() of an empty list raises ValueError
get_recent_metrics_unguarded(days, files) ==
  LET all_dates == DatesOf(files.sleep) \cup DatesOf(files.weight)
                     \cup DatesOf(files.heart_rate)
  IN IF all_dates = {} \/ \E a, b \in all_dates : ~Comparable(a, b)
       THEN Raise
       ELSE LET end_date == CHOOSE d \in all_dates : \A x \in all_dates : dt_le(x, d)
                start_date == plus_days(end_date, -days)
            IN Return(entries_in("sleep", files.sleep, start_date, end_date)
                        \o entries_in("weight", files.weight, start_date, end_date)
                        \o entries_in("heart_rate", files.heart_rate, start_date, end_date))

\* GarminService.get_recent_metrics: the list it returns (the files it saves
\* are in call_get_recent_metrics).  max() over naive and aware datetimes
\* raises TypeError; end_date - timedelta(days) keeps the tzinfo of end_date.
get_recent_metrics(days, files) ==
  LET all_dates == DatesOf(files.sleep) \cup DatesOf(files.weight)
                     \cup DatesOf(files.heart_rate)
  IN IF all_dates = {} THEN Return(<<>>)
     ELSE IF \E a, b \in all_dates : ~Comparable(a, b) THEN Raise
     ELSE LET end_date == CHOOSE d \in all_dates : \A x \in all_dates : dt_le(x, d)
              start_date == plus_days(end_date, -days)
          IN Return(entries_in("sleep", files.sleep, start_date, end_date)
                      \o entries_in("weight", files.weight, start_date, end_date)
                      \o entries_in("heart_rate", files.heart_rate, start_date, end_date))

\* str(n): the decimal text of a small index
str(n) == IF n < 10 THEN <<Digit(n)>> ELSE <<Digit(n \div 10), Digit(n % 10)>>

\* merged[key] = item on a dict that keeps insertion order: a key already
\* there keeps its place and takes the new item
dict_put(merged, key, item) ==
  IF \E i \in 1..Len(merged) : merged[i].key = key
    THEN [i \in 1..Len(merged) |->
            IF merged[i].key = key THEN [key |-> key, item |-> item] ELSE merged[i]]
    ELSE Append(merged, [key |-> key, item |-> item])

\* {item.get('_id', str(i)): item for i, item in enumerate(existing_data)}
RECURSIVE merge_existing(_, _, _)
merge_existing(merged, existing, i) ==
  IF i > Len(existing) THEN merged
  ELSE merge_existing(
         dict_put(merged,
                  IF existing[i]._id # None THEN existing[i]._id[1] ELSE str(i - 1),
                  existing[i]),
         existing, i + 1)

\* for item in data: merged[item.get('_id', str(len(merged)))] = item
RECURSIVE merge_incoming(_, _)
merge_incoming(merged, data) ==
  IF data = <<>> THEN merged
  ELSE merge_incoming(
         dict_put(merged,
                  IF Head(data)._id # None THEN Head(data)._id[1] ELSE str(Len(merged)),
                  Head(data)),
         Tail(data))

\* GarminService._save_to_storage: the list the storage file holds afterwards
save_to_storage(existing, data) ==
  IF data = <<>> THEN existing
  ELSE LET merged == merge_incoming(merge_existing(<<>>, existing, 1), data)
       IN [i \in 1..Len(merged) |-> merged[i].item]

\* the storage files after a call of get_recent_metrics on the Temp files:
\* nothing is saved when the call returns early or raises
saved(days, files) ==
  IF get_recent_metrics(days, files).raised
       \/ DatesOf(files.sleep) \cup DatesOf(files.weight) \cup DatesOf(files.heart_rate) = {}
    THEN storage
    ELSE [c \in Collections |-> save_to_storage(storage[c], files[c])]

\* a quotient, kept as numerator and denominator
Ratio(n, d) == [num |-> n, den |-> d]

\* x /= count under "if count > 0": otherwise x stays the sum
divide_if_any(sum, count) == IF count > 0 THEN Ratio(sum, count) ELSE Ratio(sum, 1)

RECURSIVE SumOptional(_, _)
SumOptional(seq, field) ==
  IF seq = <<>> THEN 0 ELSE Head(seq)[field][1] + SumOptional(Tail(seq), field)

\* GarminService.get_health_trends: the report, or the exception.  Adding
\* None to a sum raises TypeError.
get_health_trends(days, files) ==
  LET got == get_recent_metrics(days, files)
  IN IF got.raised THEN Raise
     ELSE
       LET metrics == got.value[1]
           sleeps == SelectSeq(metrics, LAMBDA m : m.metric_type = "sleep")
           hearts == SelectSeq(metrics, LAMBDA m : m.metric_type = "heart_rate")
           weights == SelectSeq(metrics, LAMBDA m : m.metric_type = "weight")
           days_count == Cardinality({metrics[i].timestamp.day : i \in 1..Len(metrics)})
           values == {hearts[i].value[1] : i \in 1..Len(hearts)}
       IN IF \/ \E i \in 1..Len(metrics) : metrics[i].value = None
             \/ \E i \in 1..Len(sleeps) : sleeps[i].quality = None
            THEN Raise
            ELSE Return(
              [sleep |->
                 [average_duration |-> divide_if_any(SumOptional(sleeps, "value"), days_count),
                  average_quality |-> divide_if_any(SumOptional(sleeps, "quality"), days_count),
                  best_day |-> None, worst_day |-> None],
               heart_rate |->
                 [average |-> divide_if_any(SumOptional(hearts, "value"),
                                            IF days_count > 0 THEN Len(hearts) ELSE 0),
                  highest |-> IF values = {} THEN None
                              ELSE Some(CHOOSE v \in values : \A x \in values : x <= v),
                  lowest |-> IF values = {} THEN None
                             ELSE Some(CHOOSE v \in values : \A x \in values : v <= x)],
               weight |->
                 [average |-> divide_if_any(SumOptional(weights, "value"),
                                            IF days_count > 0 THEN Len(weights) ELSE 0),
                  trend |-> [i \in 1..Len(weights) |->
                               [date |-> isoformat(weights[i].timestamp),
                                weight |-> weights[i].value[1]]]]])

\* a call of GarminService.get_recent_metrics(days) while the Temp files
\* hold files
call_get_recent_metrics(days, files) ==
  /\ \A c \in Collections : Len(saved(days, files)[c]) <= MaxStored
  /\ request' = [op |-> "get_recent_metrics", days |-> days, files |-> files]
  /\ response' = [status_code |-> 0, body |-> get_recent_metrics(days, files)]
  /\ storage' = saved(days, files)

\* a call of GarminService.get_health_trends(days)
call_get_health_trends(days, files) ==
  /\ \A c \in Collections : Len(saved(days, files)[c]) <= MaxStored
  /\ request' = [op |-> "get_health_trends", days |-> days, files |-> files]
  /\ response' = [status_code |-> 0, body |-> get_health_trends(days, files)]
  /\ storage' = saved(days, files)

\* ------------------------------------------------------------------ inputs
UTC == <<TRUE, 0>>
West == <<TRUE, -1>>     \* one slot behind UTC
Naive == <<FALSE, 0>>
Zones == {UTC, West, Naive}

\* wall-clock readings of submitted records: <<day, slot>>
RecordClock == {<<FirstDay, 0>>, <<FirstDay, 1>>, <<FirstDay + 1, 0>>}
\* the stamps of submitted records: every reading in UTC, the first day's
\* readings one slot behind UTC, and the first reading without a zone
RecordTimes ==
  {dt(c[1], c[2], TRUE, 0) : c \in RecordClock}
    \cup {dt(FirstDay, s, TRUE, -1) : s \in {0, 1}}
    \cup {dt(FirstDay, 0, FALSE, 0)}

base_phases == [deep |-> 90, light |-> 240, rem |-> 120, awake |-> 20]
base_time == dt(FirstDay, 1, TRUE, 0)
base_composition ==
  [body_fat |-> 20, muscle_mass |-> 40, water_percentage |-> 55, bone_mass |-> Some(3)]

SleepOf(start, end, quality, phases) ==
  [start_time |-> start, end_time |-> end, quality |-> quality,
   phases |-> phases, source |-> "test"]
HeartRateOf(t, value, resting) ==
  [timestamp |-> t, value |-> value, resting_rate |-> resting,
   activity_type |-> None, source |-> "test"]
WeightOf(t, value, bmi, composition) ==
  [timestamp |-> t, value |-> value, bmi |-> bmi,
   body_composition |-> composition, source |-> "test"]

\* submissions that differ in when they are stamped: sleep under every
\* stamp, heart rate and weight under three of them
TimedSleep == {SleepOf(t, plus_days(t, 1), 82, base_phases) : t \in RecordTimes}
TimedHeartRate ==
  {HeartRateOf(dt(FirstDay, 0, TRUE, 0), 72, Some(60)),
   HeartRateOf(dt(FirstDay, 0, TRUE, -1), 90, Some(60)),
   HeartRateOf(base_time, 81, None)}
TimedWeight ==
  {WeightOf(dt(FirstDay, 0, TRUE, 0), 70, Some(22), Some(base_composition)),
   WeightOf(dt(FirstDay, 0, FALSE, 0), 72, Some(22), Some(base_composition)),
   WeightOf(base_time, 71, None, None)}

\* submissions that differ in one field at a time, valid and invalid
FieldSleep ==
  {SleepOf(base_time, dt(c[1], c[2], TRUE, 0), 82, base_phases) : c \in RecordClock}
  \cup {SleepOf(base_time, dt(FirstDay, s, TRUE, -1), 82, base_phases) : s \in {0, 1}}
  \cup {SleepOf(base_time, dt(FirstDay + 1, 0, FALSE, 0), 82, base_phases)}
  \cup {SleepOf(dt(FirstDay, 1, TRUE, -1), dt(FirstDay + 1, 0, TRUE, 0), 82, base_phases)}
  \cup {SleepOf(dt(FirstDay, 1, FALSE, 0), dt(c[1], c[2], FALSE, 0), 82, base_phases) :
          c \in {<<FirstDay, 1>>, <<FirstDay + 1, 0>>}}
  \cup {SleepOf(dt(FirstDay, 1, FALSE, 0), dt(FirstDay + 1, 0, TRUE, 0), 82, base_phases)}
  \cup {SleepOf(base_time, plus_days(base_time, 1), q, base_phases) :
          q \in {QUALITY_MIN - 1, QUALITY_MIN, QUALITY_MAX, QUALITY_MAX + 1}}
  \cup {SleepOf(base_time, plus_days(base_time, 1), 82, p) :
          p \in {[base_phases EXCEPT !.deep = 0], [base_phases EXCEPT !.awake = -1]}}
  \cup {[start_time |-> base_time, end_time |-> plus_days(base_time, 1),
          quality |-> 82, phases |-> base_phases]}
FieldHeartRate ==
  {HeartRateOf(base_time, v, None) : v \in {HR_MIN - 1, HR_MIN, HR_MAX, HR_MAX + 1}}
  \cup {HeartRateOf(base_time, 72, Some(r)) :
          r \in {RESTING_MIN - 1, RESTING_MIN, RESTING_MAX, RESTING_MAX + 1}}
  \cup {[timestamp |-> base_time, value |-> 72, resting_rate |-> None,
          activity_type |-> None],
         [value |-> 72, resting_rate |-> None, activity_type |-> None,
          source |-> "test"]}
FieldWeight ==
  {WeightOf(base_time, v, None, None) : v \in {0, 70}}
  \cup {WeightOf(base_time, 70, b, None) : b \in {Some(0), Some(22)}}
  \cup {WeightOf(base_time, 70, None, Some(c)) :
          c \in {base_composition,
                 [base_composition EXCEPT !.bone_mass = None],
                 [base_composition EXCEPT !.body_fat = 0],
                 [base_composition EXCEPT !.body_fat = PERCENT_MAX + 1],
                 [base_composition EXCEPT !.bone_mass = Some(-1)]}}
  \cup {[timestamp |-> base_time, value |-> 70, bmi |-> None,
          body_composition |-> None]}

NowInputs == {dt(FirstDay + 1, 1, TRUE, 0)}
DaysInputs == {DAYS_MIN - 1, DAYS_MIN, DAYS_MAX, DAYS_MAX + 1}
DateInputs == {dt(FirstDay, 0, z[1], z[2]) : z \in Zones}

\* what the provider does when it is called: it raises, or it answers with
\* a fenced JSON object that has every field
good_insight ==
  Insight("Your sleep is steady.", "good", <<"Sleep quality is steady">>,
          <<"Keep your bedtime">>, "Go to bed at ten")
GoodAnswer == ProviderText(<<FenceJson, JObject(good_insight), Fence>>)
AnswerInputs == {ProviderRaises, GoodAnswer}
FailingInputs == {{}, {"heart_rate"}}
InsightDays == DaysInputs

\* the texts a provider can answer with, besides raising: the object alone,
\* fenced, fenced after a sentence of prose, prose alone, nothing; an object
\* without next_steps; one with a status outside the three; one with an empty
\* highlights list and null recommendations; one whose highlights is a
\* string; and JSON values that are no object
RichAnswers ==
  {ProviderRaises, GoodAnswer,
   ProviderText(<<JObject(good_insight)>>),
   ProviderText(<<Prose, FenceJson, JObject(good_insight), Fence>>),
   ProviderText(<<Prose>>),
   ProviderText(<<>>),
   ProviderText(<<JObject([summary |-> good_insight.summary, status |-> good_insight.status,
                           highlights |-> good_insight.highlights,
                           recommendations |-> good_insight.recommendations])>>),
   ProviderText(<<JObject([good_insight EXCEPT !.status = JStr("excellent")])>>),
   ProviderText(<<FenceJson, JObject([good_insight EXCEPT !.highlights = JList(<<>>),
                                                         !.recommendations = JNull]), Fence>>),
   ProviderText(<<JObject([good_insight EXCEPT !.highlights = JStr("Sleep is steady")])>>),
   ProviderText(<<JList(<<"summary">>)>>),
   ProviderText(<<JNull>>)}

\* submissions for the insight endpoints: one of each kind, and a heart-rate
\* reading without a resting rate
InsightSleep == {SleepOf(base_time, plus_days(base_time, 1), 82, base_phases)}
InsightHeartRate == {HeartRateOf(base_time, 72, Some(60)), HeartRateOf(base_time, 81, None)}
InsightWeight == {WeightOf(base_time, 70, Some(22), Some(base_composition))}

\* metrics lists handed to the pipeline directly
MetricsInputs ==
  {metrics_of(s, h, w) :
     s \in {<<>>, <<sleep_dict(sleep_row(<<>>, SleepOf(base_time, plus_days(base_time, 1), 82, base_phases)))>>},
     h \in {<<>>, <<heart_rate_dict(heart_rate_row(<<>>, HeartRateOf(base_time, 72, Some(60))))>>},
     w \in {<<>>}}

InsightReads ==
  [metrics |-> {"heart_rate"}, days |-> {DAYS_MIN}, dates |-> {dt(FirstDay, 0, TRUE, 0)},
   db_ok |-> BOOLEAN, insight_days |-> {DAYS_MIN},
   failing |-> {{}, {"heart_rate"}, MetricType}, answers |-> RichAnswers]

\* the inputs of the read endpoints: all of them, or one of each
AllReads ==
  [metrics |-> MetricType, days |-> DaysInputs, dates |-> DateInputs,
   db_ok |-> BOOLEAN, insight_days |-> InsightDays, failing |-> FailingInputs,
   answers |-> AnswerInputs]
FewReads ==
  [metrics |-> {"heart_rate"}, days |-> {DAYS_MIN}, dates |-> {dt(FirstDay, 0, TRUE, 0)},
   db_ok |-> {TRUE}, insight_days |-> {DAYS_MIN}, failing |-> {{}},
   answers |-> {GoodAnswer}]

\* ----------------------------------------------------------- state machine
Init ==
  /\ sleep = <<>>
  /\ heart_rate = <<>>
  /\ weight = <<>>
  /\ inserted = {}
  /\ provider_log = <<>>
  /\ workers = [w \in Workers |-> Idle]
  /\ db_lock = 0
  /\ reported = {}
  /\ storage = [c \in Collections |-> <<>>]
  /\ request = [op |-> "none"]
  /\ response = [status_code |-> 0, body |-> [status |-> "none"]]

\* the parts of the state the handlers of one process, taken one request at
\* a time, leave alone
others == <<workers, db_lock, reported, storage>>

NextOn(S, H, W, R) ==
  \/ \E data \in S, db_ok \in BOOLEAN :
       submit_sleep_data(data, db_ok) /\ UNCHANGED others
  \/ \E data \in H, db_ok \in BOOLEAN :
       submit_heart_rate_data(data, db_ok) /\ UNCHANGED others
  \/ \E data \in W, db_ok \in BOOLEAN :
       submit_weight_data(data, db_ok) /\ UNCHANGED others
  \/ \E m \in R.metrics, days \in R.days, now \in NowInputs, db_ok \in R.db_ok :
       get_health_data(m, days, now, db_ok) /\ UNCHANGED others
  \/ \E date \in R.dates, db_ok \in R.db_ok :
       get_daily_summary(date, db_ok) /\ UNCHANGED others
  \/ \E days \in R.insight_days, now \in NowInputs, failing \in R.failing,
          answer \in R.answers :
       get_recent_insights(days, now, failing, answer) /\ UNCHANGED others
  \/ \E date \in R.dates, db_ok \in R.db_ok, answer \in R.answers :
       get_daily_insights(date, db_ok, answer) /\ UNCHANGED others

\* the service under submissions stamped at different times, read every way
Next == NextOn(TimedSleep, TimedHeartRate, TimedWeight, AllReads)
Spec == Init /\ [][Next]_vars

\* the service under submissions that differ field by field
NextIngest == NextOn(FieldSleep, FieldHeartRate, FieldWeight, FewReads)
SpecIngest == Init /\ [][NextIngest]_vars

\* the service with few submissions, under every kind of provider answer, and
\* the pipeline called on its own
NextInsight ==
  \/ NextOn(InsightSleep, InsightHeartRate, InsightWeight, InsightReads)
  \/ \E metrics \in MetricsInputs, answer \in RichAnswers :
       call_get_health_insights(metrics, answer) /\ UNCHANGED others
SpecInsight == Init /\ [][NextInsight]_vars

\* submissions handled by several processes at once
ConcurrentInputs(kind) ==
  CASE kind = "sleep" ->
         {SleepOf(base_time, plus_days(base_time, 1), 82, base_phases)}
    [] kind = "heart_rate" ->
         {HeartRateOf(base_time, 72, Some(60)), HeartRateOf(base_time, 81, None)}
    [] kind = "weight" ->
         {WeightOf(base_time, 70, None, None), WeightOf(base_time, 0, None, None)}

NextConcurrent ==
  \/ \E w \in Workers, kind \in MetricType : \E data \in ConcurrentInputs(kind) :
       receive_submit(w, kind, data) /\ UNCHANGED <<provider_log, storage>>
  \/ \E w \in Workers, db_ok \in BOOLEAN :
       execute_insert(w, db_ok) /\ UNCHANGED <<provider_log, storage>>
  \/ \E w \in Workers, db_ok \in BOOLEAN :
       commit_insert(w, db_ok) /\ UNCHANGED <<provider_log, storage>>
  \/ \E w \in Workers : respond_submit(w) /\ UNCHANGED <<provider_log, storage>>
SpecConcurrent == Init /\ [][NextConcurrent]_vars

\* the Temp files GarminService finds: sleep items on the last day (without
\* _id), at the start of the day before, one slot behind UTC (its _id the
\* text "0", no quality), and three days back; heart-rate items, two on one day; a weight item stamped
\* with "Z"
LastDay == FirstDay + 3
key_0 == <<Digit(0)>>
key_a == <<97>>
sleep_last == Item(None, Some(isoformat(dt(LastDay, 0, TRUE, 0))), None,
                   Some(420), Some(80), None, None)
sleep_west == Item(Some(key_0), Some(isoformat(dt(LastDay - 1, 0, TRUE, -1))),
                   None, Some(400), None, None, None)
sleep_old == Item(Some(key_a), Some(isoformat(dt(FirstDay, 0, TRUE, 0))), None,
                  Some(300), Some(50), None, None)
heart_first == Item(None, None, Some(isoformat(dt(LastDay, 0, TRUE, 0))),
                    None, None, Some(60), None)
heart_second == Item(None, None, Some(isoformat(dt(LastDay, 1, TRUE, 0))),
                     None, None, Some(80), None)
weight_z == Item(Some(key_a), None, Some(<<Digit(LastDay \div 10), Digit(LastDay % 10),
                                           Digit(0), 90>>),
                 None, None, None, Some(70))
GarminFiles ==
  {[sleep |-> s, weight |-> w, heart_rate |-> h] :
     s \in {<<>>, <<sleep_last>>, <<sleep_west>>, <<sleep_last, sleep_old>>,
            <<sleep_west, sleep_old>>},
     w \in {<<>>, <<weight_z>>},
     h \in {<<>>, <<heart_first>>, <<heart_first, heart_second>>}}
GarminDays == {1}

NextGarmin ==
  \/ \E days \in GarminDays, files \in GarminFiles :
       /\ call_get_recent_metrics(days, files)
       /\ UNCHANGED <<tables, inserted, provider_log, workers, db_lock, reported>>
  \/ \E days \in GarminDays, files \in GarminFiles :
       /\ call_get_health_trends(days, files)
       /\ UNCHANGED <<tables, inserted, provider_log, workers, db_lock, reported>>
SpecGarmin == Init /\ [][NextGarmin]_vars

\* ------------------------------------------------------------------ claims
\* e is a later moment than s (both with a zone, or both without)
StrictlyAfter(e, s) == e.aware = s.aware /\ Instant(e) > Instant(s)

\* C1: a sleep submission whose end_time is not strictly after its start_time
\* is answered with a validation error and leaves the three relations as they
\* were; a sleep submission that is accepted has end_time > start_time.  (Two
\* times of which one has a zone and the other none have no order: such a
\* submission is refused before the handler runs and stores nothing.)
C1_SleepTimesEnforced ==
  [][request'.op = "submit_sleep_data" =>
       LET d == request'.data
       IN /\ (Comparable(d.end_time, d.start_time)
                /\ Instant(d.end_time) <= Instant(d.start_time)) =>
               (response'.status_code = 422 /\ tables' = tables)
          /\ ~StrictlyAfter(d.end_time, d.start_time) =>
               (response'.status_code \notin {200, 400} /\ tables' = tables)
          /\ response'.status_code = 200 =>
               StrictlyAfter(d.end_time, d.start_time)]_vars

\* a rejected sleep submission whose end shows a later wall clock than its
\* start, in another zone, and is the same moment
C1_Witness ==
  /\ request.op = "submit_sleep_data"
  /\ response.status_code = 422
  /\ request.data.start_time.aware /\ request.data.end_time.aware
  /\ request.data.end_time.day > request.data.start_time.day
  /\ Instant(request.data.end_time) = Instant(request.data.start_time)
  /\ SleepPhase_valid(request.data.phases)
  /\ request.data.quality = 82

\* C2: a heart-rate submission with value below 30 or above 220 is rejected
\* and not stored; one with value in 30..220, the bounds included, is accepted,
\* and stored with that value when the engine takes the row.
C2_HeartRateBounds ==
  [][request'.op = "submit_heart_rate_data" =>
       LET d == request'.data
           resting_ok == /\ {"timestamp", "source"} \subseteq DOMAIN d
                         /\ \/ d.resting_rate = None
                            \/ (d.resting_rate[1] >= 30 /\ d.resting_rate[1] <= 100)
       IN /\ (d.value < 30 \/ d.value > 220) =>
               (response'.status_code = 422 /\ tables' = tables)
          /\ (d.value >= 30 /\ d.value <= 220 /\ resting_ok) =>
               response'.status_code \in {200, 400}
          /\ response'.status_code = 200 =>
               /\ d.value >= 30 /\ d.value <= 220
               /\ Len(heart_rate') = Len(heart_rate) + 1
               /\ heart_rate'[Len(heart_rate')].value = d.value]_vars

\* both boundary values are stored, the second one just now
C2_Witness ==
  /\ request.op = "submit_heart_rate_data"
  /\ response.status_code = 200
  /\ Len(heart_rate) = 2
  /\ {heart_rate[1].value, heart_rate[2].value} = {30, 220}

\* t2 is t with one row added at its end
OneRowAppended(t, t2) == Len(t2) = Len(t) + 1 /\ SubSeq(t2, 1, Len(t)) = t

\* the row of relation t at position i is the one written for submission x
KeptAsInserted(t, x, row) ==
  /\ x.id \in 1..Len(t)
  /\ t[x.id] = [row EXCEPT !.id = x.id]

\* C3: records are append-only.  After any sequence of submit, recent-data,
\* daily-summary and insight operations, every row once stored in sleep,
\* heart_rate or weight is still stored, under its id, with the field values
\* it was inserted with; and no step of any operation shortens a relation
\* or changes a row it holds.
C3_AppendOnly ==
  /\ [](\A x \in inserted :
          CASE x.kind = "sleep" -> KeptAsInserted(sleep, x, sleep_row(<<>>, x.data))
            [] x.kind = "heart_rate" ->
                 KeptAsInserted(heart_rate, x, heart_rate_row(<<>>, x.data))
            [] x.kind = "weight" -> KeptAsInserted(weight, x, weight_row(<<>>, x.data)))
  /\ [][/\ SubSeq(sleep', 1, Len(sleep)) = sleep
        /\ SubSeq(heart_rate', 1, Len(heart_rate)) = heart_rate
        /\ SubSeq(weight', 1, Len(weight)) = weight]_vars

\* rows are stored in two relations and an insight request that called the
\* provider has been answered over them
C3_Witness ==
  /\ TotalRows = MaxRows
  /\ Cardinality(inserted) = MaxRows
  /\ heart_rate # <<>>
  /\ sleep # <<>>
  /\ request.op = "get_daily_insights"
  /\ response.status_code = 200
  /\ provider_log # <<>>

\* C4: a successful insert of a record of kind K appends exactly one row to
\* the relation of kind K and leaves the other two relations as they were; no
\* request adds more than one row.
C4_InsertAppendsOneRow ==
  [][/\ (request'.op = "submit_sleep_data" /\ response'.status_code = 200) =>
          (OneRowAppended(sleep, sleep') /\ heart_rate' = heart_rate /\ weight' = weight)
     /\ (request'.op = "submit_heart_rate_data" /\ response'.status_code = 200) =>
          (OneRowAppended(heart_rate, heart_rate') /\ sleep' = sleep /\ weight' = weight)
     /\ (request'.op = "submit_weight_data" /\ response'.status_code = 200) =>
          (OneRowAppended(weight, weight') /\ sleep' = sleep /\ heart_rate' = heart_rate)
     /\ Len(sleep') + Len(heart_rate') + Len(weight') <= TotalRows + 1]_vars

\* a weight row stored after a sleep row
C4_Witness ==
  /\ request.op = "submit_weight_data"
  /\ response.status_code = 200
  /\ Len(weight) = 1
  /\ Len(sleep) = 1
  /\ Len(heart_rate) = 0

\* ---- reads: what the claims say a read returns -------------------------
\* the moment a stored time column shows (a text without a zone is read as
\* UTC, as the service reads a date without a zone)
MomentOf(text) == Instant(fromisoformat(text))

Ids(seq) == {seq[i].id : i \in 1..Len(seq)}
NoRepeat(seq) == Cardinality(Ids(seq)) = Len(seq)

\* the returned dictionary d shows the stored submission rec, field by field
Shows(d, rec) ==
  /\ d.id = rec.id
  /\ d.source = rec.data.source
  /\ CASE rec.kind = "sleep" ->
            /\ fromisoformat(d.start_time) = rec.data.start_time
            /\ fromisoformat(d.end_time) = rec.data.end_time
            /\ d.quality = rec.data.quality
            /\ d.phases = rec.data.phases
       [] rec.kind = "heart_rate" ->
            /\ fromisoformat(d.timestamp) = rec.data.timestamp
            /\ d.value = rec.data.value
            /\ d.resting_rate = rec.data.resting_rate
            /\ d.activity_type = rec.data.activity_type
       [] rec.kind = "weight" ->
            /\ fromisoformat(d.timestamp) = rec.data.timestamp
            /\ d.value = rec.data.value
            /\ d.bmi = rec.data.bmi
            /\ IF rec.data.body_composition = None
                 THEN d.body_composition = None
                 ELSE /\ d.body_composition # None
                      /\ d.body_composition[1].body_fat
                           = Some(rec.data.body_composition[1].body_fat)
                      /\ d.body_composition[1].muscle_mass
                           = Some(rec.data.body_composition[1].muscle_mass)
                      /\ d.body_composition[1].water_percentage
                           = Some(rec.data.body_composition[1].water_percentage)
                      /\ d.body_composition[1].bone_mass
                           = rec.data.body_composition[1].bone_mass

RecentAnswered == request.op = "get_health_data" /\ response.status_code = 200
SinceOf(req) == plus_days(req.now, -req.days)
SubmittedTime(rec) ==
  IF rec.kind = "sleep" THEN rec.data.start_time ELSE rec.data.timestamp

\* C5: round trip.  A stored record of a kind, range-queried with a
\* since-timestamp not later than the record's timestamp, is returned equal
\* to what was submitted in every field, the nested phases and body
\* composition included (and a null body composition as null).
C5_RoundTrip ==
  RecentAnswered =>
    \A rec \in inserted :
      (rec.kind = request.metric_type
         /\ Instant(SinceOf(request)) <= Instant(SubmittedTime(rec))) =>
        \E i \in 1..Len(response.body.data) : Shows(response.body.data[i], rec)

\* C6: a range query returns exactly the stored records of the kind whose
\* timestamp (start_time for sleep) is >= since, newest first; with no such
\* record it returns the empty sequence.
C6_RangeQueryExact ==
  RecentAnswered =>
    LET kind == request.metric_type
        data == response.body.data
        due == {r \in Rows(TableOf(kind)) :
                  MomentOf(TimeOf(kind, r)) >= Instant(SinceOf(request))}
    IN /\ NoRepeat(data)
       /\ Ids(data) = {r.id : r \in due}
       /\ \A i \in 1..(Len(data) - 1) :
            MomentOf(TimeOf(kind, data[i])) >= MomentOf(TimeOf(kind, data[i + 1]))

DailyAnswered == request.op = "get_daily_summary" /\ response.status_code = 200
DayStart(req) == Instant(req.date)
DayEnd(req) == Instant(plus_days(req.date, 1))
InDay(req, kind, r) ==
  /\ DayStart(req) <= MomentOf(TimeOf(kind, r))
  /\ MomentOf(TimeOf(kind, r)) < DayEnd(req)
ListOf(summary, kind) ==
  CASE kind = "sleep" -> summary.sleep
    [] kind = "heart_rate" -> summary.heart_rate
    [] kind = "weight" -> summary.weight

\* C7: a daily summary holds, for each kind, exactly the stored records whose
\* timestamp t has date <= t < date + 1 day.
C7_DailyWindowExact ==
  DailyAnswered =>
    \A kind \in MetricType :
      /\ NoRepeat(ListOf(response.body.data, kind))
      /\ Ids(ListOf(response.body.data, kind))
           = {r.id : r \in {x \in Rows(TableOf(kind)) : InDay(request, kind, x)}}

\* C8: the window query of the daily summary returns its records in the order
\* of the range query, newest first.
C8_WindowNewestFirst ==
  DailyAnswered =>
    \A kind \in MetricType :
      LET list == ListOf(response.body.data, kind)
      IN \A i \in 1..(Len(list) - 1) :
           ~text_lt(TimeOf(kind, list[i]), TimeOf(kind, list[i + 1]))

\* the heart-rate average a summary carries, if it carries one
HasAverage(summary) == "heart_rate_average" \in DOMAIN summary
AverageOf(summary) == summary.heart_rate_average

\* C9: a daily summary for a date with no stored record of any kind has empty
\* sleep, heart_rate and weight lists and a heart-rate average of null.
C9_EmptyDay ==
  (DailyAnswered
     /\ \A kind \in MetricType :
          \A r \in Rows(TableOf(kind)) : ~InDay(request, kind, r)) =>
    /\ response.body.data.sleep = <<>>
    /\ response.body.data.heart_rate = <<>>
    /\ response.body.data.weight = <<>>
    /\ HasAverage(response.body.data)
    /\ AverageOf(response.body.data) = None

RECURSIVE SumValues(_)
SumValues(S) ==
  IF S = {} THEN 0
  ELSE LET r == CHOOSE x \in S : TRUE IN r.value + SumValues(S \ {r})

\* C10: when a heart-rate record falls in the day window, the daily summary
\* carries a heart-rate average, the arithmetic mean of the values of exactly
\* the heart-rate records in the window: average * count = sum.
C10_DailyAverageIsMean ==
  LET due == {r \in Rows(heart_rate) : InDay(request, "heart_rate", r)}
  IN (DailyAnswered /\ due # {}) =>
       /\ HasAverage(response.body.data)
       /\ AverageOf(response.body.data) # None
       /\ AverageOf(response.body.data)[1] * Cardinality(due) = SumValues(due)

\* the one summary the stored rows and the date determine
TheSummary(date) == CHOOSE x \in HealthDataService_get_daily_summary(date) : TRUE

\* C11: idempotence of the daily summary.  A daily-summary query changes no
\* stored state; the answer to a query is the one value the stored rows and
\* the date determine, so two queries for the same date with no insert
\* committed between them are answered identically; in particular a query
\* repeated at once gets the answer again.
C11_DailySummaryIdempotent ==
  /\ [](DailyAnswered =>
          /\ Cardinality(HealthDataService_get_daily_summary(request.date)) = 1
          /\ response.body.data = TheSummary(request.date))
  /\ [][request'.op = "get_daily_summary" => (tables' = tables /\ inserted' = inserted)]_vars
  /\ [][(DailyAnswered /\ request'.op = "get_daily_summary"
          /\ response'.status_code = 200 /\ request'.date = request.date) =>
          response' = response]_vars

\* a summary answered over two rows of one relation that were inserted
\* newest first, so that rowid order and time order differ
C11_Witness ==
  /\ DailyAnswered
  /\ Len(response.body.data.sleep) = 2
  /\ response.body.data.sleep[1].id = 2
  /\ response.body.data.sleep[2].id = 1

\* C12: on the recent-data and recent-insights endpoints a days value outside
\* 1..30 (0 and 31 among them) is rejected with a validation error, whatever
\* the state of the store, which is not read and not written, and the value
\* is not clamped into the range; 1 and 30 are accepted.
C12_DaysBoundary ==
  [][request'.op \in {"get_health_data", "get_recent_insights"} =>
       /\ (request'.days < 1 \/ request'.days > 30) =>
            /\ response'.status_code = 422
            /\ provider_log' = <<>>
            /\ tables' = tables
       /\ request'.days \in 1..30 => response'.status_code # 422]_vars

\* days = 31 rejected on the insights endpoint while the store holds rows
C12_Witness ==
  /\ request.op = "get_recent_insights"
  /\ request.days = 31
  /\ response.status_code = 422
  /\ TotalRows > 0

\* ---- insights ------------------------------------------------------------
InsightEndpoints == {"get_recent_insights", "get_daily_insights"}
InsightOps == InsightEndpoints \cup {"get_health_insights"}

\* the request was an insight request in which the provider was called
ProviderAsked(req) == req.op \in InsightOps /\ req.answer # None

\* the request got x back as its Insight: the endpoints in a success body, a
\* direct caller as the returned value
GotInsight(req, resp, x) ==
  IF req.op = "get_health_insights"
    THEN resp.body = [raised |-> FALSE, value |-> <<x>>]
    ELSE resp = Ok([status |-> "success", insights |-> x])

\* an Insight as the data model has it
StatusOk(x) == x.status \in {JStr("good"), JStr("fair"), JStr("poor")}
NonEmptyList(v) == v.t = "list" /\ v.v # <<>>

\* no metric reaches the metrics list of the recent-insights request req
NoRecentMetrics(req) ==
  \A kind \in MetricType \ req.failing :
    get_recent_data(kind, req.days, req.now) = {<<>>}

\* no record falls in the day of the daily-insights request req
NoDailyMetrics(req) ==
  /\ TheSummary(req.date).sleep = <<>>
  /\ TheSummary(req.date).heart_rate = <<>>
  /\ TheSummary(req.date).weight = <<>>

\* C13: the insight pipeline called with an empty metrics list returns the
\* same fixed "no data yet" Insight, of status "fair", whatever requests came
\* before, and the provider is not contacted; the endpoints, when no metric
\* is on hand, answer with their own fixed Insight of status "fair" and do
\* not contact the provider either.
C13_EmptyMetricsFixedInsight ==
  [][/\ (request'.op = "get_health_insights" /\ request'.metrics = <<>>) =>
          /\ response'.body = [raised |-> FALSE, value |-> <<LLM_NO_DATA>>]
          /\ LLM_NO_DATA.status = JStr("fair")
          /\ provider_log' = <<>>
     /\ (request'.op = "get_recent_insights" /\ response'.status_code = 200
           /\ NoRecentMetrics(request')) =>
          /\ response'.body.insights = RECENT_NO_DATA
          /\ RECENT_NO_DATA.status = JStr("fair")
          /\ provider_log' = <<>>
     /\ (request'.op = "get_daily_insights" /\ response'.status_code = 200
           /\ NoDailyMetrics(request')) =>
          /\ response'.body.insights.status = JStr("fair")
          /\ provider_log' = <<>>]_vars

\* the pipeline called with no metrics while the store holds rows
C13_Witness ==
  /\ request.op = "get_health_insights"
  /\ request.metrics = <<>>
  /\ TotalRows > 0
  /\ response.body.value = <<LLM_NO_DATA>>
  /\ provider_log = <<>>

\* the text is not valid JSON once the code-fence markers are taken away
NotJson(answer) == ~answer.raises /\ json_loads(strip_fences(answer.text)) = None

\* C14: when the provider returns a text that is not valid JSON after the
\* code fences are stripped, the pipeline returns the canned fallback Insight,
\* whose status is one of good/fair/poor and whose highlights and
\* recommendations are non-empty lists, and no error is raised.
C14_NotJsonFallsBack ==
  (ProviderAsked(request) /\ NotJson(request.answer[1])) =>
    /\ GotInsight(request, response, FALLBACK)
    /\ StatusOk(FALLBACK)
    /\ NonEmptyList(FALLBACK.highlights)
    /\ NonEmptyList(FALLBACK.recommendations)

\* prose around a fenced object: the fallback is served by the endpoint
C14_Witness ==
  /\ request.op = "get_recent_insights"
  /\ request.answer # None
  /\ NotJson(request.answer[1])
  /\ Len(request.answer[1].text) = 4
  /\ response.status_code = 200
  /\ response.body.insights = FALLBACK

\* the text is a JSON object that lacks one of the five required fields
LacksField(answer) ==
  /\ ~answer.raises
  /\ json_loads(strip_fences(answer.text)) # None
  /\ json_loads(strip_fences(answer.text))[1].t = "object"
  /\ \E f \in {"summary", "status", "highlights", "recommendations", "next_steps"} :
       f \notin DOMAIN json_loads(strip_fences(answer.text))[1].fields

\* C15: when the provider returns a well-formed JSON object that lacks one of
\* the five required fields, the response is discarded, the hardcoded
\* fallback Insight is returned, and no error reaches the HTTP boundary.
C15_MissingFieldFallsBack ==
  (ProviderAsked(request) /\ LacksField(request.answer[1])) =>
    GotInsight(request, response, FALLBACK)

\* C16: every insight request in which the provider is called ends with an
\* Insight returned (validated, or the fallback); when the provider call
\* itself raises, the fallback Insight is returned, and the endpoints answer
\* with success, never with an error.
C16_ProviderFailureAbsorbed ==
  ProviderAsked(request) =>
    /\ request.op \in InsightEndpoints => response.status_code = 200
    /\ request.op = "get_health_insights" => ~response.body.raised
    /\ request.answer[1].raises => GotInsight(request, response, FALLBACK)

\* C17: within one insight request the provider is invoked at most once;
\* after a provider failure or a refused text it is not called again.
C17_ProviderCalledOnce ==
  /\ Len(provider_log) <= 1
  /\ request.op \in InsightOps => (ProviderAsked(request) <=> Len(provider_log) = 1)

\* the provider raised in a recent-insights request: it was called once
C17_Witness ==
  /\ request.op = "get_recent_insights"
  /\ request.answer = Some(ProviderRaises)
  /\ Len(provider_log) = 1
  /\ response.status_code = 500

\* the request was answered with an Insight
InsightReturned ==
  \/ request.op \in InsightEndpoints /\ response.status_code = 200
  \/ request.op = "get_health_insights" /\ ~response.body.raised
TheInsight ==
  IF request.op = "get_health_insights" THEN response.body.value[1]
  ELSE response.body.insights

\* C18: every Insight the pipeline returns, on any path, has a status in
\* {good, fair, poor} and highlights and recommendations that are non-empty
\* lists (a status outside the set having been coerced to fair, an empty or
\* non-list highlights or recommendations value replaced by the fixed list).
C18_InsightWellFormed ==
  InsightReturned =>
    /\ StatusOk(TheInsight)
    /\ NonEmptyList(TheInsight.highlights)
    /\ NonEmptyList(TheInsight.recommendations)

\* the submission d of the request passes validation
ValidBody(req) ==
  CASE req.op = "submit_sleep_data" -> SleepData_built(req.data) = "ok"
    [] req.op = "submit_heart_rate_data" -> HeartRateData_valid(req.data)
    [] req.op = "submit_weight_data" -> WeightData_valid(req.data)

SubmitOps == {"submit_sleep_data", "submit_heart_rate_data", "submit_weight_data"}

\* C19: when the storage engine fails during an insert (a valid submission
\* is not stored), the caller receives an error in the envelope
\* {status: error, error, details}, under a status code other than that of a
\* validation rejection; no row is added to any relation, by the failed
\* statement or by a second try.
C19_StorageErrorEnvelope ==
  [][request'.op \in SubmitOps =>
       /\ (ValidBody(request') /\ response'.status_code # 200) =>
            /\ response'.status_code = 400
            /\ response'.status_code # ValidationError.status_code
            /\ DOMAIN response'.body.detail = {"status", "error", "details"}
            /\ response'.body.detail.status = "error"
            /\ tables' = tables
       /\ response'.status_code = 400 => (ValidBody(request') /\ tables' = tables)
       /\ ~ValidBody(request') =>
            (response'.status_code \in {422, 500} /\ tables' = tables)]_vars

\* a valid sleep submission refused by the engine while rows are stored
C19_Witness ==
  /\ request.op = "submit_sleep_data"
  /\ response.status_code = 400
  /\ response.body.detail.status = "error"
  /\ SleepData_built(request.data) = "ok"
  /\ TotalRows > 0

\* C20: on every endpoint that reads the store, the insight endpoints
\* included, a storage error raised by a read reaches the boundary as an
\* error response; it is never absorbed into a success response.
C20_ReadErrorsPropagate ==
  (request.op = "get_recent_insights" /\ request.failing # {}) =>
    response.status_code \notin {200}

\* the relation a submit operation writes
RelationOf(op) ==
  CASE op = "submit_sleep_data" -> sleep
    [] op = "submit_heart_rate_data" -> heart_rate
    [] op = "submit_weight_data" -> weight

\* C24: a successful insert returns to the caller the generated identifier
\* of the newly stored row, together with a success status.
C24_InsertReturnsId ==
  (request.op \in SubmitOps /\ response.status_code = 200) =>
    /\ response.body.status = "success"
    /\ response.body.data # None
    /\ response.body.data[1] = [id |-> Len(RelationOf(request.op))]

\* the weight rows whose timestamp is in the window of the request, by instant
WeightsDue(req) ==
  {r \in Rows(weight) : MomentOf(r.timestamp) >= Instant(SinceOf(req))}
NewestOf(S) == CHOOSE r \in S : \A x \in S : MomentOf(x.timestamp) <= MomentOf(r.timestamp)
EarliestOf(S) == CHOOSE r \in S : \A x \in S : MomentOf(r.timestamp) <= MomentOf(x.timestamp)
StampedUTC(r) == fromisoformat(r.timestamp).aware /\ fromisoformat(r.timestamp).off = 0

\* C26: for a recent-insights request with at least two weight records in
\* the window, the prompt states as the current weight the value of the most
\* recent weight record, and as the change the most recent value minus the
\* earliest value in the window.  (Stated for records stamped in UTC at
\* different moments, where the window by text and by instant is the same.)
C26_PromptWeightTrend ==
  (/\ request.op = "get_recent_insights"
   /\ provider_log # <<>>
   /\ "weight" \notin request.failing
   /\ \A r \in Rows(weight) : StampedUTC(r)
   /\ Cardinality(WeightsDue(request)) >= 2
   /\ Cardinality({MomentOf(r.timestamp) : r \in WeightsDue(request)})
        = Cardinality(WeightsDue(request))) =>
    /\ provider_log[1].current_weight = NewestOf(WeightsDue(request)).value
    /\ provider_log[1].weight_trend
         = NewestOf(WeightsDue(request)).value - EarliestOf(WeightsDue(request)).value

\* C28: for every metrics list the insight endpoints build from validly
\* stored records, heart-rate records without a resting rate and weight
\* records without bmi or body composition included, prompt construction
\* yields a prompt and the request reaches the provider call.
C28_PromptNeverRaises ==
  /\ (request.op = "get_recent_insights" /\ response.status_code # 422
        /\ ~NoRecentMetrics(request)) => Len(provider_log) = 1
  /\ (request.op = "get_daily_insights" /\ request.date.aware
        /\ response.status_code = 200 /\ ~NoDailyMetrics(request)) =>
       Len(provider_log) = 1

\* the stored time text carries a UTC offset
HasOffset(kind, r) == fromisoformat(TimeOf(kind, r)).aware

\* C29: filtering agrees with chronological order.  Whatever UTC offset a
\* record was stamped with, get_recent_data returns it if and only if its
\* instant is at or after since, in the order of the instants, newest first,
\* and get_daily_summary returns it if and only if its instant is in the day
\* asked for.  (Stated for the records stamped with an offset, whose instant
\* is beyond doubt.)
C29_TextOrderIsTimeOrder ==
  /\ RecentAnswered =>
       /\ \A r \in Rows(TableOf(request.metric_type)) :
            HasOffset(request.metric_type, r) =>
              ((r.id \in Ids(response.body.data))
                 <=> (MomentOf(TimeOf(request.metric_type, r)) >= Instant(SinceOf(request))))
       /\ \A i \in 1..(Len(response.body.data) - 1) :
            (/\ HasOffset(request.metric_type, response.body.data[i])
             /\ HasOffset(request.metric_type, response.body.data[i + 1])) =>
              MomentOf(TimeOf(request.metric_type, response.body.data[i]))
                >= MomentOf(TimeOf(request.metric_type, response.body.data[i + 1]))
  /\ DailyAnswered =>
       \A kind \in MetricType : \A r \in Rows(TableOf(kind)) :
         HasOffset(kind, r) =>
           ((r.id \in Ids(ListOf(response.body.data, kind))) <=> InDay(request, kind, r))

\* the stored rows satisfy the constraints of the write path
RowsWithinConstraints ==
  /\ \A r \in Rows(heart_rate) :
       /\ r.value >= 30 /\ r.value <= 220
       /\ (r.resting_rate = None \/ (r.resting_rate[1] >= 30 /\ r.resting_rate[1] <= 100))
       /\ {"source", "timestamp"} \subseteq DOMAIN r
       /\ Len(r.timestamp) >= 3
  /\ \A r \in Rows(sleep) :
       /\ r.quality >= 0 /\ r.quality <= 100
       /\ r.deep_sleep >= 0 /\ r.light_sleep >= 0 /\ r.rem_sleep >= 0 /\ r.awake_time >= 0
       /\ {"source", "start_time", "end_time"} \subseteq DOMAIN r
       /\ Len(r.start_time) >= 3
  /\ \A r \in Rows(weight) :
       /\ r.value > 0
       /\ {"source", "timestamp"} \subseteq DOMAIN r
       /\ Len(r.timestamp) >= 3

ReadOps == {"get_health_data", "get_daily_summary", "get_recent_insights",
            "get_daily_insights", "get_health_insights"}

\* C25: after any sequence of operations every stored row satisfies the
\* write-time constraints: heart-rate value in 30..220, resting rate null or
\* in 30..100, sleep quality in 0..100, every sleep phase duration >= 0,
\* weight value > 0, and a source and a timestamp that are present.  They are
\* enforced when the row is written: a refused submission leaves the
\* relations as they were, and a read changes no row and returns the rows'
\* values as they are stored.
C25_StoredRowsWithinConstraints ==
  /\ []RowsWithinConstraints
  /\ [][/\ (request'.op \in SubmitOps /\ ~ValidBody(request')) =>
             (response'.status_code # 200 /\ tables' = tables)
        /\ request'.op \in ReadOps => tables' = tables
        /\ (request'.op = "get_health_data" /\ response'.status_code = 200
              /\ request'.metric_type = "heart_rate") =>
             \A i \in 1..Len(response'.body.data) :
               \E r \in Rows(heart_rate) : response'.body.data[i] = heart_rate_dict(r)]_vars

\* the relations are full, and a sleep submission with a negative awake
\* duration has just been refused
C25_Witness ==
  /\ request.op = "submit_sleep_data"
  /\ request.data.phases.awake < 0
  /\ response.status_code = 422
  /\ TotalRows = MaxRows
  /\ sleep # <<>>

\* the rows of the relation of a kind
RelationOfKind(kind) ==
  CASE kind = "sleep" -> sleep
    [] kind = "heart_rate" -> heart_rate
    [] kind = "weight" -> weight

\* the row of a relation written for the submission data under id
RowOf(kind, data, id) ==
  CASE kind = "sleep" -> [sleep_row(<<>>, data) EXCEPT !.id = id]
    [] kind = "heart_rate" -> [heart_rate_row(<<>>, data) EXCEPT !.id = id]
    [] kind = "weight" -> [weight_row(<<>>, data) EXCEPT !.id = id]

\* the submissions committed whose answer is still to be sent
AnswerDue == {w \in Workers : workers[w].pc = "respond" /\ workers[w].code = 200}

\* C23: under any interleaving of concurrent inserts, into the same relation
\* or into different ones, every request answered with success has exactly
\* one complete row, holding exactly its own field values; no row mixes the
\* fields of two requests; and the number of rows is the number of successful
\* inserts (those answered, and those committed whose answer is on its way).
C23_ConcurrentInsertsIsolated ==
  /\ \A x \in reported :
       /\ x.id \in 1..Len(RelationOfKind(x.kind))
       /\ RelationOfKind(x.kind)[x.id] = RowOf(x.kind, x.data, x.id)
       /\ \A y \in reported : (y.kind = x.kind /\ y.id = x.id) => y = x
  /\ \A kind \in MetricType : \A i \in 1..Len(RelationOfKind(kind)) :
       \E data \in ConcurrentInputs(kind) :
         Valid(kind, data) /\ RelationOfKind(kind)[i] = RowOf(kind, data, i)
  /\ TotalRows = Cardinality(reported) + Cardinality(AnswerDue)

\* two rows in the same relation written for different submissions, the
\* second answer still due, while another process was refused the lock or
\* the commit
C23_Witness ==
  /\ \E x \in reported : x.kind = "heart_rate" /\ x.id = 1
  /\ \E w, v \in Workers :
       /\ workers[w].pc = "respond" /\ workers[w].code = 200
       /\ workers[w].kind = "heart_rate" /\ workers[w].row[1].id = 2
       /\ heart_rate[1].value # heart_rate[2].value
       /\ workers[v].pc = "respond" /\ workers[v].code = 400

\* ---- GarminService -------------------------------------------------------
TrendsAnswered == request.op = "get_health_trends" /\ ~response.body.raised
TheReport == response.body.value[1]

\* the entries of a category in the window of the request
WindowEntries(req, kind) ==
  SelectSeq(get_recent_metrics(req.days, req.files).value[1],
            LAMBDA m : m.metric_type = kind)
DistinctDays(seq) == Cardinality({seq[i].timestamp.day : i \in 1..Len(seq)})
SameRatio(a, b) == a.num * b.den = b.num * a.den

\* C21: in the trend report the sleep averages are the sleep sums divided by
\* the number of distinct calendar days present in the sleep records, and the
\* heart-rate average is the heart-rate sum divided by the number of distinct
\* calendar days present in the heart-rate records, never by the number of
\* records.
C21_AveragesPerDistinctDay ==
  TrendsAnswered =>
    /\ WindowEntries(request, "sleep") # <<>> =>
         /\ SameRatio(TheReport.sleep.average_duration,
                      Ratio(SumOptional(WindowEntries(request, "sleep"), "value"),
                            DistinctDays(WindowEntries(request, "sleep"))))
         /\ SameRatio(TheReport.sleep.average_quality,
                      Ratio(SumOptional(WindowEntries(request, "sleep"), "quality"),
                            DistinctDays(WindowEntries(request, "sleep"))))
    /\ WindowEntries(request, "heart_rate") # <<>> =>
         SameRatio(TheReport.heart_rate.average,
                   Ratio(SumOptional(WindowEntries(request, "heart_rate"), "value"),
                         DistinctDays(WindowEntries(request, "heart_rate"))))

\* every item of the files has the values the report adds up
CompleteFiles(files) ==
  /\ \A i \in 1..Len(files.sleep) : files.sleep[i].sleepQuality # None
  /\ \A i \in 1..Len(files.heart_rate) : files.heart_rate[i].heartRate # None
  /\ \A i \in 1..Len(files.weight) : files.weight[i].weight # None

TimeText(kind, item) == IF kind = "sleep" THEN item.startTime[1] ELSE item.timestamp[1]
ItemInstant(kind, item) == Instant(parse_time(TimeText(kind, item)))
LoadedInstants(files) ==
  UNION {{ItemInstant(c, files[c][i]) : i \in 1..Len(files[c])} : c \in Collections}
Anchor(files) ==
  CHOOSE a \in LoadedInstants(files) : \A x \in LoadedInstants(files) : x <= a
EntryInstants(seq) == [i \in 1..Len(seq) |-> Instant(seq[i].timestamp)]

RECURSIVE DueInstants(_, _, _, _)
DueInstants(kind, data, lo, hi) ==
  IF data = <<>> THEN <<>>
  ELSE (IF lo <= ItemInstant(kind, Head(data)) /\ ItemInstant(kind, Head(data)) <= hi
          THEN <<ItemInstant(kind, Head(data))>> ELSE <<>>)
       \o DueInstants(kind, Tail(data), lo, hi)

\* C27: the window of get_recent_metrics is anchored on the latest timestamp
\* present across all loaded records: the result holds the record bearing
\* that timestamp and every record at most days days older, and no record
\* older than that; with no loaded records it is the empty list.
C27_WindowAnchoredOnLatest ==
  (request.op = "get_recent_metrics" /\ ~response.body.raised) =>
    IF LoadedInstants(request.files) = {}
      THEN response.body.value[1] = <<>>
      ELSE /\ \E i \in 1..Len(response.body.value[1]) :
                Instant(response.body.value[1][i].timestamp) = Anchor(request.files)
           /\ \A c \in Collections :
                EntryInstants(SelectSeq(response.body.value[1],
                                        LAMBDA m : m.metric_type = c))
                  = DueInstants(c, request.files[c],
                                Anchor(request.files) - request.days * SlotsPerDay,
                                Anchor(request.files))

\* the anchor is a heart-rate record; a sleep record stamped behind UTC lies
\* at the very start of the window and is in, one three days back is out
C27_Witness ==
  /\ request.op = "get_recent_metrics"
  /\ request.files.sleep = <<sleep_west, sleep_old>>
  /\ Len(request.files.heart_rate) = 2
  /\ ItemInstant("sleep", sleep_west) = Anchor(request.files) - request.days * SlotsPerDay
  /\ Len(SelectSeq(response.body.value[1], LAMBDA m : m.metric_type = "sleep")) = 1
  /\ response.body.value[1][1].timestamp.off = -1

ItemsOf(seq) == {seq[i] : i \in 1..Len(seq)}

\* C30: the JSON storage merge never loses data.  After a call that saves,
\* every item that was in a collection's storage file is still there unless
\* an incoming item carries the same _id, and every incoming item is there.
C30_MergeKeepsItems ==
  [][request'.op \in {"get_recent_metrics", "get_health_trends"} =>
       \A c \in Collections :
         /\ \A x \in ItemsOf(storage[c]) :
              \/ x \in ItemsOf(storage'[c])
              \/ x._id # None /\ \E y \in ItemsOf(request'.files[c]) : y._id = x._id
         /\ (LoadedInstants(request'.files) # {} /\ ~get_recent_metrics(request'.days, request'.files).raised) =>
              ItemsOf(request'.files[c]) \subseteq ItemsOf(storage'[c])]_vars

====
